---- MODULE Spec2Model ----
(***************************************************************************)
(* Model of cmd/docgen/dst/dst.go of yamldoc-go (the current revision of   *)
(* the file, lines 631-1475): the type-graph resolution started by process *)
(* (collectStructsWithOpts, parseStructuresFromDSTSpec, collectFields,     *)
(* collectUnresolvedExternalStructs) and the synthesis pass of process.    *)
(*                                                                         *)
(* Strings are sequences of symbols (a symbol is one letter or one atomic  *)
(* lower-case word), so concatenation, prefix trimming, splitting and case *)
(* folding are computed, never assumed.                                    *)
(***************************************************************************)
EXTENDS Integers, Sequences, FiniteSets, TLC

VARIABLES
    prog,             \* the loaded packages: declarations, root name (input)
    pc,               \* position of process()
    stack,            \* call stack of the recursive resolution
    uniqueStructures, \* the package-level dedup map (dst.go:1153)
    logs,             \* diagnostics written with log.Printf
    structures,       \* process(): var structures []*structType
    doc,              \* process(): doc.Structs
    extraExamples,    \* process(): map TypeRef -> examples
    backReferences,   \* process(): map TypeRef -> appearances
    rendered,         \* whether render(doc, output) was invoked
    enumIn,           \* input of collectPartEnumInformation (pure-function spec)
    enumOut,          \* its result
    pkgs              \* process(): the packages its loop has not visited yet

vars == <<prog, pc, stack, uniqueStructures, logs, structures, doc,
          extraExamples, backReferences, rendered, enumIn, enumOut, pkgs>>

(***************************************************************************)
(* Bounds of the model.                                                    *)
(***************************************************************************)
MaxFields == 2
MaxDepth == 12
MaxSpecs == 3

Nil == [nil |-> TRUE]

\* Go maps from strings to slices
EmptyMap == [k \in {} |-> << >>]
Lookup(m, k) == IF k \in DOMAIN m THEN m[k] ELSE << >>
\* m[k] = append(values, m[k]...)
MapPrepend(m, k, values) ==
    [x \in DOMAIN m \cup {k} |-> (IF x = k THEN values ELSE << >>) \o Lookup(m, x)]
\* m[k] = append(m[k], values...)
MapAppend(m, k, values) ==
    [x \in DOMAIN m \cup {k} |-> Lookup(m, x) \o (IF x = k THEN values ELSE << >>)]

(***************************************************************************)
(* Strings.                                                                *)
(***************************************************************************)
Empty == << >>

CasePairs == { <<"a", "A">>, <<"b", "B">>, <<"c", "C">>, <<"d", "D">>,
               <<"q", "Q">>, <<"u", "U">>, <<"z", "Z">>, <<"t", "T">>,
               <<"k", "K">>, <<"s", "S">>, <<"n", "N">>, <<"x", "X">>,
               <<"y", "Y">>, <<"e", "E">> }

\* unicode.IsUpper on one symbol
IsUpper(c) == \E p \in CasePairs : p[2] = c

ToUpperSym(c) == IF \E p \in CasePairs : p[1] = c
                 THEN (CHOOSE p \in CasePairs : p[1] = c)[2] ELSE c
ToLowerSym(c) == IF \E p \in CasePairs : p[2] = c
                 THEN (CHOOSE p \in CasePairs : p[2] = c)[1] ELSE c

\* strings.ToUpper / strings.ToLower / strings.EqualFold
ToUpper(s) == [i \in 1..Len(s) |-> ToUpperSym(s[i])]
ToLower(s) == [i \in 1..Len(s) |-> ToLowerSym(s[i])]
EqualFold(s, t) == ToLower(s) = ToLower(t)

\* strings.TrimPrefix
HasPrefix(s, p) == Len(s) >= Len(p) /\ SubSeq(s, 1, Len(p)) = p
TrimPrefix(s, p) == IF HasPrefix(s, p) THEN SubSeq(s, Len(p) + 1, Len(s)) ELSE s

\* strings.Count(s, sym) and strings.Split(s, sym)[0]
\* a count that finds no occurrence
CountNone(s, c) == 0
Count(s, c) == Cardinality({i \in 1..Len(s) : s[i] = c})
SplitFirst(s, c) ==
    IF \E i \in 1..Len(s) : s[i] = c
    THEN SubSeq(s, 1, (CHOOSE i \in 1..Len(s) :
                          s[i] = c /\ \A j \in 1..(i - 1) : s[j] # c) - 1)
    ELSE s

\* path.Base: the text after the last "/"
Base(p) ==
    IF \E i \in 1..Len(p) : p[i] = "/"
    THEN SubSeq(p, (CHOOSE i \in 1..Len(p) :
                       p[i] = "/" /\ \A j \in (i + 1)..Len(p) : p[j] # "/") + 1, Len(p))
    ELSE p

wrapStructName(prefix, suffix) ==
    IF prefix = Empty THEN suffix ELSE prefix \o <<".">> \o suffix

(***************************************************************************)
(* Type expressions of the dst syntax tree.                                *)
(***************************************************************************)
Ident(name, path) == [k |-> "Ident", Name |-> name, Path |-> path]
Star(x) == [k |-> "Star", X |-> x]
Array(x) == [k |-> "Array", Elt |-> x]
MapT(key, val) == [k |-> "Map", Key |-> key, Value |-> val]
InterfaceT == [k |-> "Interface"]

\* (*dst.Ident).String()
IdentString(t) == IF t.Path # Empty THEN t.Path \o <<".">> \o t.Name ELSE t.Name

RECURSIVE getFieldTypeNoPath(_, _, _)
getFieldTypeNoPath(p, prefix, apply) ==
    CASE p.k = "Map" -> getFieldTypeNoPath(p.Value, prefix, FALSE)
      [] p.k = "Ident" ->
            IF p.Path # Empty THEN Empty
            ELSE IF apply /\ prefix # Empty THEN wrapStructName(prefix, p.Name)
            ELSE p.Name
      [] p.k = "Array" -> getFieldTypeNoPath(p.Elt, prefix, FALSE)
      [] p.k = "Star" -> getFieldTypeNoPath(p.X, prefix, TRUE)
      [] OTHER -> Empty

\* getFieldType with the package prefix applied to every identifier
RECURSIVE getFieldTypeAlwaysApply(_, _, _)
getFieldTypeAlwaysApply(p, prefix, apply) ==
    CASE p.k = "Map" -> getFieldTypeAlwaysApply(p.Value, prefix, TRUE)
      [] p.k = "Ident" ->
            IF p.Path # Empty THEN wrapStructName(Base(p.Path), p.Name)
            ELSE IF prefix # Empty THEN wrapStructName(prefix, p.Name)
            ELSE p.Name
      [] p.k = "Array" -> getFieldTypeAlwaysApply(p.Elt, prefix, TRUE)
      [] p.k = "Star" -> getFieldTypeAlwaysApply(p.X, prefix, TRUE)
      [] OTHER -> Empty
RECURSIVE getFieldType(_, _, _)
getFieldType(p, prefix, apply) ==
    CASE p.k = "Map" -> getFieldType(p.Value, prefix, FALSE)
      [] p.k = "Ident" ->
            IF p.Path # Empty THEN wrapStructName(Base(p.Path), p.Name)
            ELSE IF apply /\ prefix # Empty THEN wrapStructName(prefix, p.Name)
            ELSE p.Name
      [] p.k = "Array" -> getFieldType(p.Elt, prefix, FALSE)
      [] p.k = "Star" -> getFieldType(p.X, prefix, TRUE)
      [] OTHER -> Empty

RECURSIVE formatFieldType(_, _, _)
formatFieldType(p, prefix, apply) ==
    CASE p.k = "Map" ->
            <<"map[">> \o formatFieldType(p.Key, prefix, FALSE) \o <<"]">>
                \o formatFieldType(p.Value, prefix, FALSE)
      [] p.k = "Ident" ->
            IF p.Path # Empty THEN wrapStructName(Base(p.Path), p.Name)
            ELSE IF apply /\ prefix # Empty THEN wrapStructName(prefix, p.Name)
            ELSE p.Name
      [] p.k = "Array" -> <<"[]">> \o formatFieldType(p.Elt, prefix, FALSE)
      [] p.k = "Struct" -> <<"struct">>
      [] p.k = "Star" -> formatFieldType(p.X, prefix, TRUE)
      [] p.k = "Interface" -> <<"interface{}">>
      [] OTHER -> Empty

\* the identifiers reached when the key of a map type is not followed
RECURSIVE LeavesValueOnly(_)
LeavesValueOnly(p) ==
    CASE p.k = "Map" -> LeavesValueOnly(p.Value)
      [] p.k = "Ident" -> <<p>>
      [] p.k = "Array" -> LeavesValueOnly(p.Elt)
      [] p.k = "Star" -> LeavesValueOnly(p.X)
      [] OTHER -> << >>
\* The identifiers collectUnresolvedExternalStructs reaches in a type
\* expression, in the order it visits them (map key before map value).
RECURSIVE Leaves(_)
Leaves(p) ==
    CASE p.k = "Map" -> Leaves(p.Key) \o Leaves(p.Value)
      [] p.k = "Ident" -> <<p>>
      [] p.k = "Array" -> Leaves(p.Elt)
      [] p.k = "Star" -> Leaves(p.X)
      [] OTHER -> << >>

(***************************************************************************)
(* The loaded program: what decorator.Load hands to process.  A program is *)
(* a root package "r" (one file) and the package "q" it imports under the  *)
(* path x/q; the path y/u is imported by the source text but has no entry  *)
(* in pkg.Imports.  The struct declarations are A and B (package r) and C  *)
(* (package q); their field lists and the requested root name vary.        *)
(***************************************************************************)
PathQ == <<"x", "/", "q">>
PathU == <<"y", "/", "u">>
\* a second loaded import whose path has the same base name as PathQ, and a
\* loaded import whose path is a single segment
PathQ2 == <<"y", "/", "q">>
PathM == <<"m">>

\* The packages decorator.Load returns to process: the root package "r", and
\* a second root package "s" in the programs that name one.
Pkgs(p) == IF "pkgs" \in DOMAIN p THEN p.pkgs ELSE <<"r">>

\* pkg.Imports of each package: import path -> loaded package
Imports(pkg) ==
    IF pkg \in {"r", "s"}
    THEN { <<PathQ, "q">>, <<PathQ2, "q2">>, <<PathM, "m">> }
    ELSE {}
HasImport(pkg, path) == \E e \in Imports(pkg) : e[1] = path
ImportOf(pkg, path) == (CHOOSE e \in Imports(pkg) : e[1] = path)[2]

Doc(words, examples) == [Words |-> words, Examples |-> examples, Values |-> << >>]
\* a comment whose yaml block has a "values:" list
DocWithValues(words, examples, values) ==
    [Words |-> words, Examples |-> examples, Values |-> values]
NoDoc == Doc(<< >>, << >>)

\* one entry of dst.StructType.Fields.List
FieldDecl(names, hasTag, yaml, mapping, documentation, type) ==
    [Names |-> names, HasTag |-> hasTag, Yaml |-> yaml, Mapping |-> mapping,
     Doc |-> documentation, Type |-> type]

StringT == Ident(<<"string">>, Empty)

FSelf  == FieldDecl(<< <<"S">> >>, TRUE, <<"self">>, Empty,
                    Doc(<<"text">>, <<"exSelf">>), Star(Ident(<<"A">>, Empty)))
FB     == FieldDecl(<< <<"B">> >>, TRUE, <<"B">>, Empty,
                    Doc(<<"text">>, <<"exB">>), Ident(<<"B">>, Empty))
FBs    == FieldDecl(<< <<"B", "s">> >>, TRUE, <<"b", "s">>, Empty,
                    Doc(<<"text">>, << >>), Array(Star(Ident(<<"B">>, Empty))))
FC     == FieldDecl(<< <<"C">> >>, TRUE, <<"c">>, Empty,
                    Doc(<<"text">>, <<"exC">>), Ident(<<"C">>, PathQ))
FT     == FieldDecl(<< <<"T">> >>, TRUE, <<"t">>, Empty,
                    Doc(<<"text">>, <<"exT">>), Ident(<<"T">>, PathU))
FX     == FieldDecl(<< <<"X">> >>, TRUE, <<"x">>, Empty, NoDoc, StringT)
FN     == FieldDecl(<< <<"N">> >>, TRUE, <<"n", ",", "omitempty">>, Empty,
                    Doc(<<"text">>, << >>), StringT)
FEmbB  == FieldDecl(<< >>, TRUE, <<",", "inline">>, Empty,
                    Doc(<<"text">>, << >>), Ident(<<"B">>, Empty))
FUp    == FieldDecl(<< <<"U">> >>, TRUE, <<"up">>, Empty,
                    Doc(<<"text">>, <<"exUp">>), Ident(<<"A">>, Empty))
FY     == FieldDecl(<< <<"Y">> >>, TRUE, <<"y">>, Empty, NoDoc, StringT)
FNext  == FieldDecl(<< <<"N">> >>, TRUE, <<"next">>, Empty,
                    Doc(<<"text">>, <<"exNext">>), Star(Ident(<<"C">>, Empty)))

FKey   == FieldDecl(<< <<"K">> >>, TRUE, <<"key">>, <<"true">>, NoDoc,
                    Ident(<<"K">>, Empty))

FieldsOfA == {FSelf, FB, FBs, FC, FT, FX, FN, FEmbB, FKey}
SeqsUpTo(S, n) == UNION {[1..m -> S] : m \in 0..n}
VariantsA == SeqsUpTo(FieldsOfA, MaxFields)
VariantsB == { << >>, <<FUp>>, <<FY, FUp>> }
VariantsC == { << >>, <<FNext>> }
RootNames == { <<"A">>, <<"a">>, <<"Z">> }

Programs == [root : RootNames, fa : VariantsA, fb : VariantsB, fc : VariantsC]

\* The type declarations of a program, in the order dst.Inspect meets them.
\* genDoc is the comment above the "type" keyword (decorations of the GenDecl),
\* specDoc the decorations of the TypeSpec itself, empty in a declaration
\* that is not part of a parenthesised group.
Decls(p) ==
    IF "decls" \in DOMAIN p THEN p.decls ELSE
    << [pkg |-> "r", file |-> 1, name |-> <<"A">>, struct |-> TRUE,
        genDoc |-> Doc(<<"text">>, <<"ownA">>), specDoc |-> NoDoc, fields |-> p.fa],
       [pkg |-> "r", file |-> 1, name |-> <<"B">>, struct |-> TRUE,
        genDoc |-> NoDoc, specDoc |-> Doc(<<"text">>, <<"ownB">>), fields |-> p.fb],
       [pkg |-> "q", file |-> 1, name |-> <<"C">>, struct |-> TRUE,
        genDoc |-> Doc(<<"text">>, <<"ownC">>), specDoc |-> NoDoc, fields |-> p.fc],
       [pkg |-> "r", file |-> 1, name |-> <<"K">>, struct |-> FALSE,
        genDoc |-> Doc(<<"text">>, << >>), specDoc |-> NoDoc, fields |-> << >>] >>

DeclIds(p) == 1..Len(Decls(p))

\* ident.Obj: go/parser resolves an identifier to a declaration of the same
\* file with exactly that name; 0 stands for Obj == nil.
ObjOf(p, pkg, file, t) ==
    IF t.Path = Empty /\ \E d \in DeclIds(p) :
          /\ Decls(p)[d].pkg = pkg /\ Decls(p)[d].file = file
          /\ Decls(p)[d].name = t.Name
    THEN CHOOSE d \in DeclIds(p) :
          /\ Decls(p)[d].pkg = pkg /\ Decls(p)[d].file = file
          /\ Decls(p)[d].name = t.Name
    ELSE 0

\* parseStructuresFromDSTSpec's filter: a struct type whose name matches the
\* wanted name case-insensitively and is exported.
Accepts(decl, structName) ==
    /\ decl.struct
    /\ EqualFold(structName, decl.name)
    /\ IsUpper(decl.name[1])

RECURSIVE SelectIds(_, _, _, _)
SelectIds(p, pkg, structName, d) ==
    IF d > Len(Decls(p)) THEN << >>
    ELSE (IF Decls(p)[d].pkg = pkg /\ Accepts(Decls(p)[d], structName)
          THEN <<d>> ELSE << >>) \o SelectIds(p, pkg, structName, d + 1)

\* The declarations one collectStructsWithOpts call parses, in file order.
Matches(p, pkg, structName) == SelectIds(p, pkg, structName, 1)

\* parseComment, reduced to what the resolver and process read of a Text.
parseComment(documentation) ==
    [Description |-> documentation.Words, Examples |-> documentation.Examples,
     Values |-> documentation.Values]

\* uncommentDecorationNode(f) == "" and strings.Contains(..., "docgen:nodoc")
IsUndocumented(documentation) ==
    /\ documentation.Words = << >>
    /\ documentation.Examples = << >>
    /\ documentation.Values = << >>
HasNoDocDirective(documentation) ==
    \E i \in 1..Len(documentation.Words) : documentation.Words[i] = "docgen:nodoc"


(***************************************************************************)
(* Enum groups: collectPartEnumInformation.  A node is the list of the     *)
(* GenDecls dst.Inspect meets in it; a comment is a list of lines.         *)
(***************************************************************************)
Slashes == "// "
Line(rest) == <<Slashes>> \o rest
MarkerOf(typeName) == <<"name", ":">> \o typeName
ConstSpec(name, decs) == [Names |-> <<name>>, Decs |-> decs]
GenDecl(tok, decs, specs) == [Tok |-> tok, Decs |-> decs, Specs |-> specs]

\* typeName[strings.LastIndex(typeName, ".")+1:]
AfterLastDot(s) ==
    IF \E i \in 1..Len(s) : s[i] = "."
    THEN SubSeq(s, (CHOOSE i \in 1..Len(s) :
                       s[i] = "." /\ \A j \in (i + 1)..Len(s) : s[j] # ".") + 1, Len(s))
    ELSE s

Panic == [panic |-> TRUE, values |-> << >>]
Values(v) == [panic |-> FALSE, values |-> v]

\* the loop over g.Specs (dst.go:903-916); indexing the last line of an
\* empty comment is an index-out-of-range panic
RECURSIVE EnumOfSpecsKeepLimit(_, _, _)
EnumOfSpecsKeepLimit(specs, i, acc) ==
    IF i > Len(specs) THEN Values(acc)
    ELSE IF Len(specs[i].Names) = 0 THEN EnumOfSpecsKeepLimit(specs, i + 1, acc)
    ELSE IF Len(specs[i].Decs) = 0 THEN Panic
    ELSE EnumOfSpecsKeepLimit(specs, i + 1,
            Append(acc, TrimPrefix(specs[i].Decs[Len(specs[i].Decs)],
                                   <<Slashes, "name", ":">>)))

RECURSIVE EnumOfSpecs(_, _, _)
EnumOfSpecs(specs, i, acc) ==
    IF i > Len(specs) THEN Values(acc)
    ELSE IF Len(specs[i].Names) = 0 THEN EnumOfSpecs(specs, i + 1, acc)
    ELSE IF specs[i].Names[1] = <<"limit">> THEN EnumOfSpecs(specs, i + 1, acc)
    ELSE IF Len(specs[i].Decs) = 0 THEN Panic
    ELSE EnumOfSpecs(specs, i + 1,
            Append(acc, TrimPrefix(specs[i].Decs[Len(specs[i].Decs)],
                                   <<Slashes, "name", ":">>)))

\* whether the callback of dst.Inspect reads the specs of GenDecl g
IsEnumGroup(g, fieldName) ==
    /\ g.Tok = "const"
    /\ Len(g.Decs) > 0
    /\ TrimPrefix(g.Decs[Len(g.Decs)], <<Slashes>>) = fieldName

RECURSIVE EnumOfNode(_, _, _, _)
EnumOfNode(node, fieldName, i, acc) ==
    IF i > Len(node) THEN Values(acc)
    ELSE IF ~IsEnumGroup(node[i], fieldName) THEN EnumOfNode(node, fieldName, i + 1, acc)
    ELSE LET r == EnumOfSpecs(node[i].Specs, 1, acc)
         IN  IF r.panic THEN Panic ELSE EnumOfNode(node, fieldName, i + 1, r.values)

collectPartEnumInformation(node, typeName) ==
    EnumOfNode(node, MarkerOf(AfterLastDot(typeName)), 1, << >>)

\* The GenDecls of a source file of the program, and of a node that is a
\* bare TypeSpec (which holds none).
KeyGroup == GenDecl("const", <<Line(<<"text">>), Line(MarkerOf(<<"K">>))>>,
               << ConstSpec(<<"D", "NS">>, <<Line(MarkerOf(<<"dns">>))>>),
                  ConstSpec(<<"H", "TTP">>, <<Line(MarkerOf(<<"http">>))>>),
                  ConstSpec(<<"H", "eadless">>, <<Line(MarkerOf(<<"headless">>))>>),
                  ConstSpec(<<"limit">>, << >>) >>)
NodeOf(pkg, original) ==
    IF original = "file" /\ pkg = "r" THEN <<KeyGroup>> ELSE << >>

(***************************************************************************)
(* The resolution as a stack machine.  A "scan" frame is one call of       *)
(* collectStructsWithOpts; a "fields" frame is one call of                 *)
(* parseStructuresFromDSTSpec that passed its filter and runs the loop of  *)
(* collectFields.                                                          *)
(***************************************************************************)
ScanFrame(pkg, structName, prefix, todo) ==
    [kind |-> "scan", pkg |-> pkg, structName |-> structName, prefix |-> prefix,
     todo |-> todo, main |-> Nil, extras |-> << >>]

FieldsFrame(d, pkg, structName, prefix, original) ==
    [kind |-> "fields", decl |-> d, pkg |-> pkg, structName |-> structName,
     prefix |-> prefix, original |-> original, idx |-> 1, inField |-> FALSE,
     cur |-> Nil, pend |-> << >>, fields |-> << >>, found |-> << >>]

Top == stack[Len(stack)]
SetTop(f) == [stack EXCEPT ![Len(stack)] = f]
Running == pc = "resolve" /\ Len(stack) > 0

\* `_, ok := uniqueStructures[key]`
SeenNever(uniq, key) == FALSE
Seen(uniq, key) == key \in uniq

\* len(structures) == 0 in process
NoTypesFoundNever(structs) == FALSE
NoTypesFound(structs) == Len(structs) = 0

\* Classify with the documentation test applied to mapping fields as well
ClassifyDocRequired(f, node) ==
    LET yamlTags == f.Yaml
        yamlTag  == SplitFirst(yamlTags, ",")
        skip     == [skip |-> TRUE, log |-> FALSE, panic |-> FALSE,
                     tag |-> Empty, enum |-> << >>]
        enum     == IF f.Mapping # Empty /\ f.Type.k = "Ident"
                    THEN collectPartEnumInformation(node, f.Type.Name)
                    ELSE Values(<< >>)
        tag      == IF f.Mapping = Empty THEN ToLower(yamlTag) ELSE yamlTag
    IN  IF ~f.HasTag \/ Len(f.Names) < 1 THEN skip
        ELSE IF f.Mapping = Empty /\ (yamlTag = Empty \/ yamlTag = <<"-">>)
                /\ Count(yamlTags, ",") < 1 THEN skip
        ELSE IF IsUndocumented(f.Doc)
             THEN [skip EXCEPT !.log = TRUE]
        ELSE IF f.Mapping # Empty /\ f.Type.k # "Ident" THEN skip
        ELSE IF enum.panic THEN [skip EXCEPT !.panic = TRUE]
        ELSE IF HasNoDocDirective(f.Doc) THEN skip
        ELSE IF ~IsUpper(f.Names[1][1]) THEN skip
        ELSE [skip |-> FALSE, log |-> FALSE, panic |-> FALSE,
              tag |-> tag, enum |-> enum.values]

\* What collectFields decides for one field before it looks at the type
\* (dst.go:1054-1087 and 1125-1130).  The branch for embedded fields
\* (dst.go:1089-1124) is behind the guard len(f.Names) < 1 of line 1054 and
\* is never entered.
Classify(f, node) ==
    LET yamlTags == f.Yaml
        yamlTag  == SplitFirst(yamlTags, ",")
        skip     == [skip |-> TRUE, log |-> FALSE, panic |-> FALSE,
                     tag |-> Empty, enum |-> << >>]
        enum     == IF f.Mapping # Empty /\ f.Type.k = "Ident"
                    THEN collectPartEnumInformation(node, f.Type.Name)
                    ELSE Values(<< >>)
        tag      == IF f.Mapping = Empty THEN ToLower(yamlTag) ELSE yamlTag
    IN  IF ~f.HasTag \/ Len(f.Names) < 1 THEN skip
        ELSE IF f.Mapping = Empty /\ (yamlTag = Empty \/ yamlTag = <<"-">>)
                /\ Count(yamlTags, ",") < 1 THEN skip
        ELSE IF f.Mapping = Empty /\ IsUndocumented(f.Doc)
             THEN [skip EXCEPT !.log = TRUE]
        ELSE IF f.Mapping # Empty /\ f.Type.k # "Ident" THEN skip
        ELSE IF enum.panic THEN [skip EXCEPT !.panic = TRUE]
        ELSE IF HasNoDocDirective(f.Doc) THEN skip
        ELSE IF ~IsUpper(f.Names[1][1]) THEN skip
        ELSE [skip |-> FALSE, log |-> FALSE, panic |-> FALSE,
              tag |-> tag, enum |-> enum.values]

\* The Field collectFields builds (dst.go:1131-1147)
NewField(f, prefix, c) ==
    [Name |-> f.Names[1], Tag |-> c.tag,
     Type |-> formatFieldType(f.Type, prefix, FALSE),
     TypeRef |-> getFieldType(f.Type, prefix, FALSE),
     Text |-> parseComment(f.Doc), EnumFields |-> c.enum]

MissingDoc(d, i) == [msg |-> "missing-doc", decl |-> d, field |-> i]
NoPackage(structName, path) == [msg |-> "no-package", structName |-> structName, path |-> path]

Init ==
    /\ prog \in Programs
    /\ pc = "start"
    /\ stack = << >>
    /\ uniqueStructures = {}
    /\ logs = << >>
    /\ structures = << >>
    /\ doc = << >>
    /\ extraExamples = EmptyMap
    /\ backReferences = EmptyMap
    /\ rendered = FALSE
    /\ enumIn = Nil
    /\ enumOut = Nil
    /\ pkgs = Pkgs(prog)

\* process(): one iteration of the loop over pkgs enters collectStructsWithOpts
ProcessStart ==
    /\ pc = "start" /\ pkgs # << >>
    /\ pc' = "resolve"
    /\ stack' = <<ScanFrame(Head(pkgs), prog.root, Empty,
                            Matches(prog, Head(pkgs), prog.root))>>
    /\ pkgs' = Tail(pkgs)
    /\ UNCHANGED <<prog, uniqueStructures, logs, structures, doc, extraExamples,
                   backReferences, rendered, enumIn, enumOut>>

\* collectStructsWithOpts: the next declaration that passes the filter of
\* parseStructuresFromDSTSpec is parsed
ScanNext ==
    /\ Running /\ Top.kind = "scan" /\ Top.todo # << >>
    /\ Len(stack) < MaxDepth
    /\ stack' = Append(SetTop([Top EXCEPT !.todo = Tail(@)]),
                       FieldsFrame(Head(Top.todo), Top.pkg, Top.structName,
                                   Top.prefix, "file"))
    /\ UNCHANGED <<prog, pc, uniqueStructures, logs, structures, doc, extraExamples,
                   backReferences, rendered, enumIn, enumOut, pkgs>>

\* collectFields: one iteration of the loop up to the type of the field
BeginField ==
    /\ Running /\ Top.kind = "fields" /\ ~Top.inField
    /\ Top.idx <= Len(Decls(prog)[Top.decl].fields)
    /\ LET f == Decls(prog)[Top.decl].fields[Top.idx]
           c == Classify(f, NodeOf(Top.pkg, Top.original))
       IN  IF c.panic
           THEN /\ pc' = "panic"
                /\ UNCHANGED <<stack, logs>>
           ELSE /\ pc' = pc
                /\ logs' = IF c.log THEN Append(logs, MissingDoc(Top.decl, Top.idx))
                           ELSE logs
                /\ stack' = IF c.skip
                            THEN SetTop([Top EXCEPT !.idx = @ + 1])
                            ELSE SetTop([Top EXCEPT !.inField = TRUE,
                                            !.cur = NewField(f, Top.prefix, c),
                                            !.pend = Leaves(f.Type)])
    /\ UNCHANGED <<prog, uniqueStructures, structures, doc, extraExamples,
                   backReferences, rendered, enumIn, enumOut, pkgs>>

\* collectUnresolvedExternalStructs on one identifier of the field's type
\* (dst.go:1171-1234): the new dedup set, the call it makes (a frame, or Nil
\* when it returns without one) and the line it logs.
LeafStep(fr, t, uniq) ==
    LET obj  == ObjOf(prog, fr.pkg, Decls(prog)[fr.decl].file, t)
        none == [uniq |-> uniq, push |-> Nil, log |-> Nil]
        scan(pkg, prefix) ==
            IF Matches(prog, pkg, t.Name) = << >> THEN Nil
            ELSE ScanFrame(pkg, t.Name, prefix, Matches(prog, pkg, t.Name))
    IN  IF obj # 0
        THEN LET structName == IF fr.prefix # Empty
                               THEN wrapStructName(fr.prefix, t.Name) ELSE t.Name
             IN  IF Seen(uniq, structName) THEN none
                 ELSE [none EXCEPT
                         !.uniq = uniq \cup {structName},
                         !.push = IF Accepts(Decls(prog)[obj], t.Name)
                                  THEN FieldsFrame(obj, fr.pkg, t.Name, fr.prefix, "spec")
                                  ELSE Nil]
        ELSE IF t.Path # Empty
        THEN LET prefixSmallName == wrapStructName(Base(t.Path), t.Name)
                 u1 == uniq \cup {prefixSmallName}
                 u2 == u1 \cup {IdentString(t)}
             IN  IF Seen(uniq, prefixSmallName) THEN none
                 ELSE IF Seen(u1, IdentString(t)) THEN [none EXCEPT !.uniq = u1]
                 ELSE IF ~HasImport(fr.pkg, t.Path)
                      THEN [none EXCEPT !.uniq = u2,
                                        !.log = NoPackage(fr.structName, t.Path)]
                 ELSE [none EXCEPT !.uniq = u2,
                                   !.push = scan(ImportOf(fr.pkg, t.Path), Base(t.Path))]
        ELSE IF Seen(uniq, t.Name) THEN none
             ELSE [none EXCEPT !.uniq = uniq \cup {t.Name},
                               !.push = scan(fr.pkg, Empty)]

\* collectFields: collectUnresolvedExternalStructs reaches the next identifier
Leaf ==
    /\ Running /\ Top.kind = "fields" /\ Top.inField /\ Top.pend # << >>
    /\ LET r == LeafStep(Top, Head(Top.pend), uniqueStructures)
           popped == SetTop([Top EXCEPT !.pend = Tail(@)])
       IN  /\ r.push # Nil => Len(stack) < MaxDepth
           /\ uniqueStructures' = r.uniq
           /\ logs' = IF r.log # Nil THEN Append(logs, r.log) ELSE logs
           /\ stack' = IF r.push # Nil THEN Append(popped, r.push) ELSE popped
    /\ UNCHANGED <<prog, pc, structures, doc, extraExamples, backReferences,
                   rendered, enumIn, enumOut, pkgs>>

\* collectFields: the field is appended (dst.go:1140-1148)
EndField ==
    /\ Running /\ Top.kind = "fields" /\ Top.inField /\ Top.pend = << >>
    /\ stack' = SetTop([Top EXCEPT !.fields = Append(@, Top.cur), !.cur = Nil,
                                   !.inField = FALSE, !.idx = @ + 1])
    /\ UNCHANGED <<prog, pc, uniqueStructures, logs, structures, doc, extraExamples,
                   backReferences, rendered, enumIn, enumOut, pkgs>>

\* The structType parseStructuresFromDSTSpec returns (dst.go:1028-1040).  Its
\* text is parsed from the decorations of the node it was handed: the GenDecl
\* when it comes from collectStructsFromDSTNode, the TypeSpec otherwise.
StructOf(fr) ==
    [name |-> Decls(prog)[fr.decl].name, decl |-> fr.decl,
     packagePrefix |-> fr.prefix,
     text |-> parseComment(IF fr.original = "file" THEN Decls(prog)[fr.decl].genDoc
                           ELSE Decls(prog)[fr.decl].specDoc),
     fields |-> fr.fields, original |-> fr.original]

\* the extra structs ahead of the main one
CollectedExtrasFirst(main, extra) == extra \o (IF main = Nil THEN << >> ELSE <<main>>)
\* `if main != nil { *results = append(*results, main) }; append(extra...)`
Collected(main, extra) == (IF main = Nil THEN << >> ELSE <<main>>) \o extra

\* a caller that keeps only the first struct a scan parses
ReceiveFirstOnly(parent, main, extra) ==
    IF parent.kind = "fields"
    THEN [parent EXCEPT !.found = @ \o Collected(main, extra)]
    ELSE IF main # Nil /\ parent.main = Nil
         THEN [parent EXCEPT !.main = main, !.extras = @ \o extra]
         ELSE [parent EXCEPT !.extras = @ \o extra]
\* How a caller takes the (main, extra) pair a callee returns.
Receive(parent, main, extra) ==
    IF parent.kind = "fields"
    THEN [parent EXCEPT !.found = @ \o Collected(main, extra)]
    ELSE IF main # Nil /\ parent.main = Nil
         THEN [parent EXCEPT !.main = main, !.extras = @ \o extra]
         ELSE [parent EXCEPT !.extras = @ \o Collected(main, extra)]

\* collectFields and parseStructuresFromDSTSpec return to their caller
ReturnFields ==
    /\ Running /\ Top.kind = "fields" /\ ~Top.inField
    /\ Top.idx > Len(Decls(prog)[Top.decl].fields)
    /\ stack' = [i \in 1..(Len(stack) - 1) |->
                    IF i = Len(stack) - 1
                    THEN Receive(stack[i], StructOf(Top), Top.found)
                    ELSE stack[i]]
    /\ UNCHANGED <<prog, pc, uniqueStructures, logs, structures, doc, extraExamples,
                   backReferences, rendered, enumIn, enumOut, pkgs>>

\* collectStructsWithOpts returns to collectUnresolvedExternalStructs
ReturnScan ==
    /\ Running /\ Top.kind = "scan" /\ Top.todo = << >> /\ Len(stack) > 1
    /\ stack' = [i \in 1..(Len(stack) - 1) |->
                    IF i = Len(stack) - 1
                    THEN Receive(stack[i], Top.main, Top.extras)
                    ELSE stack[i]]
    /\ UNCHANGED <<prog, pc, uniqueStructures, logs, structures, doc, extraExamples,
                   backReferences, rendered, enumIn, enumOut, pkgs>>

\* collectStructsWithOpts returns to process, which goes on with the next
\* package or ends its loop over pkgs and stops with log.Fatalf when nothing
\* was found (dst.go:746-753)
ReturnRoot ==
    /\ Running /\ Top.kind = "scan" /\ Top.todo = << >> /\ Len(stack) = 1
    /\ stack' = << >>
    /\ structures' = structures \o Collected(Top.main, Top.extras)
    /\ pc' = IF pkgs # << >> THEN "start"
             ELSE IF NoTypesFound(structures') THEN "fatal" ELSE "synth"
    /\ UNCHANGED <<prog, uniqueStructures, logs, doc, extraExamples,
                   backReferences, rendered, enumIn, enumOut, pkgs>>

(***************************************************************************)
(* The synthesis pass of process (dst.go:755-806).  An Appearance holds a  *)
(* pointer to a Struct of doc.Structs: its index in that list.             *)
(***************************************************************************)
GetName(s) == wrapStructName(s.packagePrefix, s.name)

GetEscapedName(s) ==
    IF s.packagePrefix = Empty THEN s.name ELSE ToUpper(s.packagePrefix) \o s.name

\* a Struct whose fields all carry the allowed values of its first field
NewStructCopyingValues(s) ==
    [name |-> s.name, packagePrefix |-> s.packagePrefix, Text |-> s.text,
     Fields |-> [j \in 1..Len(s.fields) |->
                    [s.fields[j] EXCEPT !.EnumFields = s.fields[1].EnumFields,
                                        !.Text.Values = s.fields[1].Text.Values]],
     AppearsIn |-> << >>]
\* &Struct{name, packagePrefix, Text, Fields, PartValues} (dst.go:768-774)
NewStruct(s) ==
    [name |-> s.name, packagePrefix |-> s.packagePrefix, Text |-> s.text,
     Fields |-> s.fields, AppearsIn |-> << >>]

\* Appearance{Struct: newStruct, FieldName: field.Tag} (dst.go:785-788)
AppearanceByName(i, field) == [Struct |-> i, FieldName |-> field.Name]
Appearance(i, field) == [Struct |-> i, FieldName |-> field.Tag]

\* the loop over s.fields (dst.go:776-789) from field j on
RECURSIVE SynthFields(_, _, _, _)
SynthFields(fields, j, i, maps) ==
    IF j > Len(fields) THEN maps
    ELSE LET field == fields[j]
         IN  IF field.TypeRef = Empty THEN SynthFields(fields, j + 1, i, maps)
             ELSE SynthFields(fields, j + 1, i,
                    [ex |-> IF Len(field.Text.Examples) > 0
                            THEN MapAppend(maps.ex, field.TypeRef, field.Text.Examples)
                            ELSE maps.ex,
                     br |-> MapAppend(maps.br, field.TypeRef, <<Appearance(i, field)>>)])

\* append(s.Text.Examples, extra...) (dst.go:795)
PrependExamples(own, extra) == extra \o own
AppendExamples(own, extra) == own \o extra

\* one iteration of the second loop of process (dst.go:793-801) on Struct s
BackfilledIntoFields(s, ex, br) ==
    [s EXCEPT !.Text.Examples = AppendExamples(@, Lookup(ex, GetName(s))),
              !.AppearsIn = @ \o Lookup(br, GetName(s)),
              !.Fields = [j \in 1..Len(s.Fields) |->
                            [s.Fields[j] EXCEPT !.Text.Examples =
                                @ \o Lookup(ex, s.Fields[j].TypeRef)]]]
Backfilled(s, ex, br) ==
    [s EXCEPT !.Text.Examples = AppendExamples(@, Lookup(ex, GetName(s))),
              !.AppearsIn = @ \o Lookup(br, GetName(s))]

\* process: one iteration of the loop over structures (dst.go:765-791)
SynthStruct ==
    /\ pc = "synth" /\ Len(doc) < Len(structures)
    /\ LET i == Len(doc) + 1
           maps == SynthFields(structures[i].fields, 1, i,
                               [ex |-> extraExamples, br |-> backReferences])
       IN  /\ extraExamples' = maps.ex
           /\ backReferences' = maps.br
           /\ doc' = Append(doc, NewStruct(structures[i]))
    /\ UNCHANGED <<prog, pc, stack, uniqueStructures, logs, structures, rendered,
                   enumIn, enumOut, pkgs>>

\* process: the loop over doc.Structs (dst.go:793-801)
Backfill ==
    /\ pc = "synth" /\ Len(doc) = Len(structures)
    /\ doc' = [j \in 1..Len(doc) |-> Backfilled(doc[j], extraExamples, backReferences)]
    /\ pc' = "render"
    /\ UNCHANGED <<prog, stack, uniqueStructures, logs, structures, extraExamples,
                   backReferences, rendered, enumIn, enumOut, pkgs>>

\* process: render(doc, *output), which succeeds or returns an error
Render ==
    /\ pc = "render"
    /\ rendered' = TRUE
    /\ \E ok \in BOOLEAN : pc' = IF ok THEN "done" ELSE "failed"
    /\ UNCHANGED <<prog, stack, uniqueStructures, logs, structures, doc,
                   extraExamples, backReferences, enumIn, enumOut, pkgs>>

Next ==
    \/ ProcessStart
    \/ ScanNext
    \/ BeginField
    \/ Leaf
    \/ EndField
    \/ ReturnFields
    \/ ReturnScan
    \/ ReturnRoot
    \/ SynthStruct
    \/ Backfill
    \/ Render

Spec == Init /\ [][Next]_vars

\* The programs whose type graph is cyclic wherever it can be: B refers back
\* to A and C refers to itself; A's fields and the root name range freely.
InitLive ==
    /\ Init
    /\ prog.fb = <<FY, FUp>>
    /\ prog.fc = <<FNext>>

\* process runs to its end: the program is sequential and nothing suspends it
LiveSpec == InitLive /\ [][Next]_vars /\ WF_vars(Next)

(***************************************************************************)
(* A second family of programs: a program names its declarations (decls)   *)
(* and root packages (pkgs) itself.  The field worlds vary the field list  *)
(* of one struct over the tag, visibility, mapping and map-type cases of   *)
(* collectFields; the graph worlds are type graphs over several files and  *)
(* packages.                                                               *)
(***************************************************************************)
TextDoc == Doc(<<"text">>, << >>)

StructDecl(pkg, file, name, fields) ==
    [pkg |-> pkg, file |-> file, name |-> name, struct |-> TRUE,
     genDoc |-> TextDoc, specDoc |-> NoDoc, fields |-> fields]
NamedDecl(pkg, file, name) ==
    [pkg |-> pkg, file |-> file, name |-> name, struct |-> FALSE,
     genDoc |-> TextDoc, specDoc |-> NoDoc, fields |-> << >>]

\* x string `yaml:"x"`, not exported, no comment
GPriv == FieldDecl(<< <<"x">> >>, TRUE, <<"x">>, Empty, NoDoc, StringT)
\* N string, no tag at all
GNoTag == FieldDecl(<< <<"N">> >>, FALSE, Empty, Empty, NoDoc, StringT)
\* D string `yaml:"-"`
GDash == FieldDecl(<< <<"D">> >>, TRUE, <<"-">>, Empty, NoDoc, StringT)
\* T string `yaml:",omitempty"`, documented
GOmit == FieldDecl(<< <<"T">> >>, TRUE, <<",", "omitempty">>, Empty, TextDoc, StringT)
\* U string `yaml:"-,"`, documented
GDashComma == FieldDecl(<< <<"U">> >>, TRUE, <<"-", ",">>, Empty, TextDoc, StringT)
\* Q string `yaml:",omitempty"`, no comment
GOmitNoDoc == FieldDecl(<< <<"Q">> >>, TRUE, <<",", "omitempty">>, Empty, NoDoc, StringT)
\* Y map[E]*B `yaml:"y"`, documented: E and B are structs of the same file
GMap == FieldDecl(<< <<"Y">> >>, TRUE, <<"y">>, Empty, Doc(<<"text">>, <<"exY">>),
                  MapT(Ident(<<"E">>, Empty), Star(Ident(<<"B">>, Empty))))
\* K K `mapping:"true"`: no yaml key, no comment
GKeyBare == FieldDecl(<< <<"K">> >>, TRUE, Empty, <<"true">>, NoDoc,
                      Ident(<<"K">>, Empty))
\* S *K `mapping:"true"`
GKeyPtr == FieldDecl(<< <<"S">> >>, TRUE, Empty, <<"true">>, NoDoc,
                     Star(Ident(<<"K">>, Empty)))
\* Z string `yaml:"z"` whose comment lists values
GVals == FieldDecl(<< <<"Z">> >>, TRUE, <<"z">>, Empty,
                   DocWithValues(<<"text">>, << >>, <<"v1", "v2">>), StringT)
\* C m.D `yaml:"c"`: a struct of the import with the one-segment path
GMod == FieldDecl(<< <<"C">> >>, TRUE, <<"c">>, Empty, TextDoc, Ident(<<"D">>, PathM))

GFields == {GPriv, GNoTag, GDash, GOmit, GDashComma, GOmitNoDoc, GMap, GKeyBare,
            GKeyPtr, GVals, GMod}

\* a documented field  Name Type `yaml:"key"`
Ref(name, key, type) == FieldDecl(<<name>>, TRUE, key, Empty, TextDoc, type)
Leaf1 == Ref(<<"Y">>, <<"y">>, StringT)

FieldWorld(fa) ==
    [root |-> <<"A">>, pkgs |-> <<"r">>,
     decls |-> << StructDecl("r", 1, <<"A">>, fa),
                  StructDecl("r", 1, <<"B">>, <<Leaf1>>),
                  StructDecl("r", 1, <<"E">>, <<Leaf1>>),
                  NamedDecl("r", 1, <<"K">>),
                  StructDecl("m", 1, <<"D">>, <<Leaf1>>) >>]
FieldWorlds == {FieldWorld(fa) : fa \in SeqsUpTo(GFields, MaxFields)}

\* two exported structs of one file whose names differ in case only
FoldWorld(root) ==
    [root |-> root, pkgs |-> <<"r">>,
     decls |-> << StructDecl("r", 1, <<"A", "b">>, <<Leaf1>>),
                  StructDecl("r", 1, <<"A", "B">>, <<Leaf1, GVals>>) >>]

\* struct C in two imports whose paths share the base name q
RefC1 == Ref(<<"C">>, <<"c">>, Ident(<<"C">>, PathQ))
RefC2 == Ref(<<"D">>, <<"d">>, Star(Ident(<<"C">>, PathQ2)))
TwoPathsWorld(fa) ==
    [root |-> <<"A">>, pkgs |-> <<"r">>,
     decls |-> << StructDecl("r", 1, <<"A">>, fa),
                  StructDecl("q", 1, <<"C">>, <<Leaf1>>),
                  StructDecl("q2", 1, <<"C">>, <<Leaf1, GVals>>) >>]

\* struct D in the root package and in the import q; C of q refers to q's
\* D, declared in the same file (sameFile) or in another file of q, and to
\* itself through a pointer
RefD == Ref(<<"D">>, <<"d">>, Ident(<<"D">>, Empty))
RefNext == Ref(<<"N">>, <<"next">>, Star(Ident(<<"C">>, Empty)))
CrossWorld(fa, sameFile) ==
    [root |-> <<"A">>, pkgs |-> <<"r">>,
     decls |-> << StructDecl("r", 1, <<"A">>, fa),
                  StructDecl("r", 1, <<"D">>, <<Leaf1>>),
                  StructDecl("q", 1, <<"C">>, <<RefD, RefNext>>),
                  StructDecl("q", IF sameFile THEN 1 ELSE 2, <<"D">>, <<Leaf1, GVals>>) >>]

\* two root packages with the same declarations
RefB == Ref(<<"B">>, <<"b">>, Star(Ident(<<"B">>, Empty)))
TwoRootsWorld(fb) ==
    [root |-> <<"A">>, pkgs |-> <<"r", "s">>,
     decls |-> << StructDecl("r", 1, <<"A">>, <<RefB>>),
                  StructDecl("r", 1, <<"B">>, fb),
                  StructDecl("s", 1, <<"A">>, <<RefB>>),
                  StructDecl("s", 1, <<"B">>, fb) >>]

\* struct QC of the root package next to struct C of the import q
RefQC == Ref(<<"X">>, <<"x">>, Ident(<<"Q", "C">>, Empty))
EscapeWorld(fa) ==
    [root |-> <<"A">>, pkgs |-> <<"r">>,
     decls |-> << StructDecl("r", 1, <<"A">>, fa),
                  StructDecl("r", 1, <<"Q", "C">>, <<Leaf1>>),
                  StructDecl("q", 1, <<"C">>, <<Leaf1, GVals>>) >>]

GraphWorlds ==
    {FoldWorld(root) : root \in {<<"a", "b">>, <<"A", "B">>, <<"A", "b">>}}
    \cup {EscapeWorld(fa) : fa \in {<<RefQC>>, <<RefC1, RefQC>>, <<RefQC, RefC1>>}}
    \cup {TwoPathsWorld(fa) : fa \in {<<RefC1>>, <<RefC1, RefC2>>, <<RefC2, RefC1>>}}
    \cup {CrossWorld(fa, sf) : fa \in {<<RefC1>>, <<RefD, RefC1>>, <<RefC1, RefD>>},
                               sf \in BOOLEAN}
    \cup {TwoRootsWorld(fb) : fb \in {<< >>, <<Leaf1>>}}

Worlds == FieldWorlds \cup GraphWorlds

InitWorlds ==
    /\ prog \in Worlds
    /\ pc = "start"
    /\ stack = << >>
    /\ uniqueStructures = {}
    /\ logs = << >>
    /\ structures = << >>
    /\ doc = << >>
    /\ extraExamples = EmptyMap
    /\ backReferences = EmptyMap
    /\ rendered = FALSE
    /\ enumIn = Nil
    /\ enumOut = Nil
    /\ pkgs = Pkgs(prog)

SpecWorlds == InitWorlds /\ [][Next]_vars

(***************************************************************************)
(* Properties.                                                             *)
(***************************************************************************)
Resolved == pc \in {"synth", "render", "done", "failed"}
Synthesized == pc \in {"render", "done", "failed"}
Stopped == pc \in {"done", "failed", "fatal", "panic"}

QualifiedName(s) == wrapStructName(s.packagePrefix, s.name)

\* the number of positions of sequence q that satisfy Test
CountIn(q, Test(_)) == Cardinality({n \in 1..Len(q) : Test(q[n])})

\* C1: after the resolution pass, no two entries of the resolved set handed
\* to synthesis (the root plus the extra structs) have the same qualified
\* name, also when a discovered type refers back to the root or a type
\* refers to itself.
C1_NoDuplicateNames ==
    Resolved =>
        \A i, j \in 1..Len(structures) :
            i # j => QualifiedName(structures[i]) # QualifiedName(structures[j])

\* C2: the resolution terminates on every program (process reaches its end,
\* a fatal stop or a panic), and every call that collectUnresolvedExternalStructs
\* makes into parseStructuresFromDSTSpec or collectStructsWithOpts comes with
\* a key that was not in uniqueStructures before and is in it afterwards.
C2_Terminates ==
    /\ <>Stopped
    /\ [][(pc = "resolve" /\ Len(stack) > 0 /\ Len(stack') > Len(stack)
             /\ Top.kind = "fields")
          => (uniqueStructures \subseteq uniqueStructures'
              /\ uniqueStructures' # uniqueStructures)]_vars

\* a program with a cycle through the root has been resolved to the end
C2_Witness ==
    /\ pc = "done"
    /\ prog.root = <<"A">>
    /\ \E i \in 1..Len(prog.fa) : prog.fa[i] = FB
    /\ \E i \in 1..Len(prog.fb) : prog.fb[i] = FUp

\* the field declaration a Field of resolved struct s was built from
FieldDeclsOf(s) == Decls(prog)[s.decl].fields
DeclOfField(s, F) ==
    CHOOSE f \in {FieldDeclsOf(s)[k] : k \in 1..Len(FieldDeclsOf(s))} :
        Len(f.Names) > 0 /\ f.Names[1] = F.Name

\* C3: after synthesis, for every field F with a non-empty TypeRef of a
\* struct P, every struct whose qualified name is F.TypeRef holds in AppearsIn
\* one entry per such field of P: as many entries (P, F.Tag) as P has fields
\* with that tag and TypeRef, each naming P and the field's exposed name (the
\* lower-cased yaml key for a field without mapping tag); and AppearsIn holds
\* no other entries.
C3_OneAppearancePerField ==
    Synthesized =>
        \A j \in 1..Len(doc) :
            /\ \A i \in 1..Len(doc) : \A f \in 1..Len(doc[i].Fields) :
                  LET F == doc[i].Fields[f]
                      IsEntry(e) == e = [Struct |-> i, FieldName |-> F.Tag]
                      IsTwin(G) == G.Tag = F.Tag /\ G.TypeRef = F.TypeRef
                      D == DeclOfField(structures[i], F)
                  IN  (F.TypeRef # Empty /\ F.TypeRef = GetName(doc[j])) =>
                         /\ CountIn(doc[j].AppearsIn, IsEntry)
                               = CountIn(doc[i].Fields, IsTwin)
                         /\ CountIn(doc[j].AppearsIn, IsEntry) >= 1
                         /\ D.Mapping = Empty
                               => F.Tag = ToLower(SplitFirst(D.Yaml, ","))
            /\ \A n \in 1..Len(doc[j].AppearsIn) :
                  LET e == doc[j].AppearsIn[n]
                  IN  /\ e.Struct \in 1..Len(doc)
                      /\ \E f \in 1..Len(doc[e.Struct].Fields) :
                            /\ doc[e.Struct].Fields[f].Tag = e.FieldName
                            /\ doc[e.Struct].Fields[f].TypeRef = GetName(doc[j])

\* a struct of the output is referenced by a field whose yaml key had to be
\* lower-cased, and by a field of another struct
C3_Witness ==
    /\ pc = "done"
    /\ \E j \in 1..Len(doc) :
          /\ [Struct |-> 1, FieldName |-> <<"b">>] \in
                {doc[j].AppearsIn[n] : n \in 1..Len(doc[j].AppearsIn)}
          /\ \E n \in 1..Len(doc[j].AppearsIn) : doc[j].AppearsIn[n].Struct # 1

\* the examples of the fields of structs[i..] that refer to name, in the
\* order process walks the structs and their fields
RECURSIVE FieldExamplesFrom(_, _, _, _)
FieldExamplesFrom(structs, name, i, f) ==
    IF i > Len(structs) THEN << >>
    ELSE IF f > Len(structs[i].fields) THEN FieldExamplesFrom(structs, name, i + 1, 1)
    ELSE (IF structs[i].fields[f].TypeRef = name /\ name # Empty
          THEN structs[i].fields[f].Text.Examples ELSE << >>)
         \o FieldExamplesFrom(structs, name, i, f + 1)

\* C4: after synthesis, the example list of every struct is its own examples
\* followed by the examples of every field whose non-empty TypeRef is the
\* struct's qualified name, in field-processing order; a struct that no
\* example-carrying field refers to keeps exactly its own examples.
C4_ExamplesReachReferencedStruct ==
    Synthesized =>
        \A j \in 1..Len(doc) :
            doc[j].Text.Examples =
                structures[j].text.Examples
                    \o FieldExamplesFrom(structures, QualifiedName(structures[j]), 1, 1)

\* a struct with examples of its own received the examples of two fields
C4_Witness ==
    /\ pc = "done"
    /\ \E j \in 1..Len(doc) :
          /\ structures[j].text.Examples = <<"ownC">>
          /\ doc[j].Text.Examples = <<"ownC", "exC", "exNext">>

\* C5 as stated: after synthesis, the examples a referenced struct carries
\* itself are appended to the example list of every field whose TypeRef is
\* that struct's qualified name.
C5_StructExamplesReachFields ==
    Synthesized =>
        \A i, j \in 1..Len(doc) : \A f \in 1..Len(doc[i].Fields) :
            (doc[i].Fields[f].TypeRef # Empty
               /\ doc[i].Fields[f].TypeRef = GetName(doc[j])) =>
                doc[i].Fields[f].Text.Examples =
                    structures[i].fields[f].Text.Examples
                        \o structures[j].text.Examples

\* C5 amended: synthesis leaves every field as resolution built it; a field's
\* example list holds the examples of its own comment only, also when the
\* struct it refers to carries examples itself.
C5_FieldExamplesUnchanged ==
    Synthesized =>
        \A i \in 1..Len(doc) :
            /\ doc[i].Fields = structures[i].fields
            /\ \A f \in 1..Len(doc[i].Fields) :
                  doc[i].Fields[f].Text.Examples =
                      DeclOfField(structures[i], doc[i].Fields[f]).Doc.Examples

\* a field with an example refers to a struct that carries an example itself
C5_Witness ==
    /\ pc = "done"
    /\ \E i, j \in 1..Len(doc) : \E f \in 1..Len(doc[i].Fields) :
          /\ doc[i].Fields[f].TypeRef = GetName(doc[j])
          /\ structures[j].text.Examples # << >>
          /\ doc[i].Fields[f].Text.Examples # << >>

\* the yaml tag of field declaration D passes the tag rule of collectFields
YamlKeyKept(D) ==
    /\ D.HasTag
    /\ ~((SplitFirst(D.Yaml, ",") = Empty \/ SplitFirst(D.Yaml, ",") = <<"-">>)
         /\ Count(D.Yaml, ",") < 1)

\* C7: a named field without mapping tag that has a yaml tag passing the tag
\* rule but no documentation is in no field list of its struct in the output,
\* exactly one diagnostic is logged for it in the whole run, and the run
\* completes.
C7_UndocumentedFieldOneDiagnostic ==
    pc = "done" =>
        \A i \in 1..Len(structures) : \A k \in 1..Len(FieldDeclsOf(structures[i])) :
            LET D == FieldDeclsOf(structures[i])[k]
                IsItsDiagnostic(l) ==
                    l.msg = "missing-doc" /\ l = MissingDoc(structures[i].decl, k)
            IN  (Len(D.Names) > 0 /\ D.Mapping = Empty /\ YamlKeyKept(D)
                    /\ IsUndocumented(D.Doc)) =>
                   /\ \A j \in 1..Len(doc) :
                         structures[j].decl = structures[i].decl =>
                            \A f \in 1..Len(doc[j].Fields) :
                                doc[j].Fields[f].Name # D.Names[1]
                   /\ CountIn(logs, IsItsDiagnostic) = 1

\* the fields of declaration d before position k that collectFields includes
RECURSIVE IncludedBefore(_, _, _)
IncludedBefore(d, original, k) ==
    IF k <= 1 THEN 0
    ELSE IncludedBefore(d, original, k - 1)
         + (IF Classify(Decls(prog)[d].fields[k - 1],
                        NodeOf(Decls(prog)[d].pkg, original)).skip THEN 0 ELSE 1)

\* C8: for a struct P with an embedded (unnamed) field of struct type E, the
\* resolved set holds an entry for E, and P's field list holds the fields of
\* that entry, in their order, at the position of the embedded field.
C8_EmbeddedFieldsSpliced ==
    pc = "done" =>
        \A i \in 1..Len(structures) : \A k \in 1..Len(FieldDeclsOf(structures[i])) :
            LET P == structures[i]
                D == FieldDeclsOf(P)[k]
                E == ObjOf(prog, Decls(prog)[P.decl].pkg, Decls(prog)[P.decl].file, D.Type)
                at == IncludedBefore(P.decl, P.original, k)
            IN  (Len(D.Names) = 0 /\ D.HasTag /\ D.Type.k = "Ident" /\ E # 0) =>
                   \E e \in 1..Len(structures) :
                       /\ structures[e].decl = E
                       /\ Len(P.fields) >= at + Len(structures[e].fields)
                       /\ SubSeq(P.fields, at + 1, at + Len(structures[e].fields))
                             = structures[e].fields

\* C9: when the resolution ends with an empty resolved list, process stops
\* with the fatal error: no documentation object is built and render is not
\* invoked.
C9_NoTypesIsFatal ==
    (pc \notin {"start", "resolve"} /\ structures = << >>) =>
        (pc = "fatal" /\ doc = << >> /\ ~rendered)

\* the requested root name matched no exported struct and process stopped
C9_Witness ==
    /\ pc = "fatal"
    /\ Matches(prog, "r", prog.root) = << >>
    /\ structures = << >>

\* the identifier getFieldType takes the type reference from
RECURSIVE RefIdent(_)
RefIdent(p) ==
    CASE p.k = "Map" -> RefIdent(p.Value)
      [] p.k = "Ident" -> p
      [] p.k = "Array" -> RefIdent(p.Elt)
      [] p.k = "Star" -> RefIdent(p.X)
      [] OTHER -> Nil

\* field declaration D of a struct of package pkg names a type of an import
\* path that pkg.Imports does not hold
NamesUnloadedImport(D, pkg) ==
    /\ RefIdent(D.Type) # Nil
    /\ RefIdent(D.Type).Path # Empty
    /\ ~HasImport(pkg, RefIdent(D.Type).Path)

IsIncluded(s, k) ==
    ~Classify(FieldDeclsOf(s)[k], NodeOf(Decls(prog)[s.decl].pkg, s.original)).skip

CDns   == ConstSpec(<<"D", "NS">>, <<Line(MarkerOf(<<"dns">>))>>)
CHttp  == ConstSpec(<<"H", "TTP">>, <<Line(<<"text">>), Line(MarkerOf(<<"http">>))>>)
CLimit == ConstSpec(<<"limit">>, << >>)
CPlain == ConstSpec(<<"P", "lain">>, <<Line(<<"text">>)>>)
CBare  == ConstSpec(<<"B", "are">>, << >>)
ConstSpecs == {CDns, CHttp, CLimit, CPlain, CBare}

GroupComments == { <<Line(MarkerOf(<<"K">>))>>,
                   <<Line(<<"text">>), Line(MarkerOf(<<"K">>))>>,
                   <<Line(MarkerOf(<<"T">>))>>,
                   << >> }
EnumGroups ==
    {KeyGroup} \cup
    {GenDecl("const", c, sp) : c \in GroupComments, sp \in SeqsUpTo(ConstSpecs, MaxSpecs)}
EnumShapes == {"alone", "var", "beforeKeyGroup", "qualified"}
EnumInputs == [group : EnumGroups, shape : EnumShapes]

EnumNode(in) ==
    CASE in.shape = "var" -> <<[in.group EXCEPT !.Tok = "var"]>>
      [] in.shape = "beforeKeyGroup" -> <<in.group, KeyGroup>>
      [] OTHER -> <<in.group>>
EnumTypeName(in) == IF in.shape = "qualified" THEN <<"q", ".", "K">> ELSE <<"K">>

InitEnum ==
    /\ enumIn \in EnumInputs
    /\ enumOut = Nil
    /\ pc = "enum"
    /\ prog = Nil
    /\ pkgs = << >>
    /\ stack = << >>
    /\ uniqueStructures = {}
    /\ logs = << >>
    /\ structures = << >>
    /\ doc = << >>
    /\ extraExamples = EmptyMap
    /\ backReferences = EmptyMap
    /\ rendered = FALSE

\* collectFields calls collectPartEnumInformation(s.original, ident.Name)
ApplyEnum ==
    /\ pc = "enum" /\ enumOut = Nil
    /\ enumOut' = collectPartEnumInformation(EnumNode(enumIn), EnumTypeName(enumIn))
    /\ UNCHANGED <<prog, pc, stack, uniqueStructures, logs, structures, doc,
                   extraExamples, backReferences, rendered, enumIn, pkgs>>

NextEnum == ApplyEnum

SpecEnum == InitEnum /\ [][NextEnum]_vars

\* the groups of a node that carry the marker of typeName, and their
\* constants other than "limit", in declaration order
MarkedGroups(node, typeName) ==
    SelectSeq(node, LAMBDA g : g.Tok = "const" /\ Len(g.Decs) > 0
                 /\ g.Decs[Len(g.Decs)] = <<Slashes, "name", ":">> \o typeName)
RECURSIVE Flatten(_)
Flatten(groups) ==
    IF groups = << >> THEN << >> ELSE Head(groups).Specs \o Flatten(Tail(groups))
EnumConstants(node, typeName) ==
    SelectSeq(Flatten(MarkedGroups(node, typeName)),
              LAMBDA c : c.Names[1] # <<"limit">>)

AllowedAtCreation(d, original, D) ==
    [enum |-> Classify(D, NodeOf(Decls(prog)[d].pkg, original)).enum,
     values |-> parseComment(D.Doc).Values]

\* every Field of a list built for declaration d still has them
KeepsAllowed(d, original, fields) ==
    \A f \in 1..Len(fields) :
        \E k \in 1..Len(Decls(prog)[d].fields) :
            LET D == Decls(prog)[d].fields[k]
            IN  /\ Len(D.Names) > 0 /\ D.Names[1] = fields[f].Name
                /\ fields[f].EnumFields = AllowedAtCreation(d, original, D).enum
                /\ fields[f].Text.Values = AllowedAtCreation(d, original, D).values

StructKeepsAllowed(s) == KeepsAllowed(s.decl, s.original, s.fields)

FrameKeepsAllowed(fr) ==
    IF fr.kind = "fields"
    THEN /\ KeepsAllowed(fr.decl, fr.original, fr.fields)
         /\ \A n \in 1..Len(fr.found) : StructKeepsAllowed(fr.found[n])
    ELSE /\ fr.main # Nil => StructKeepsAllowed(fr.main)
         /\ \A n \in 1..Len(fr.extras) : StructKeepsAllowed(fr.extras[n])

\* C11: in every state of resolution and synthesis, every field that
\* collectFields has created (in a running call, in a returned struct, in
\* structures and in doc.Structs) has the EnumFields and Text.Values it was
\* created with from its own declaration, and no step changes them in a
\* Struct of doc.Structs.
C11_AllowedValuesFrozen ==
    /\ [](prog # Nil =>
            /\ \A n \in 1..Len(stack) : FrameKeepsAllowed(stack[n])
            /\ \A i \in 1..Len(structures) : StructKeepsAllowed(structures[i])
            /\ \A i \in 1..Len(doc) :
                  KeepsAllowed(structures[i].decl, structures[i].original, doc[i].Fields))
    /\ [][\A i \in 1..Len(doc) :
            /\ i <= Len(doc')
            /\ Len(doc'[i].Fields) = Len(doc[i].Fields)
            /\ \A f \in 1..Len(doc[i].Fields) :
                  /\ doc'[i].Fields[f].EnumFields = doc[i].Fields[f].EnumFields
                  /\ doc'[i].Fields[f].Text.Values = doc[i].Fields[f].Text.Values]_vars

\* the output holds a struct with a field that has enum values and another
\* field that has values from its comment and no enum values
C11_Witness ==
    /\ pc = "done"
    /\ \E i \in 1..Len(doc) : \E f, g \in 1..Len(doc[i].Fields) :
          /\ doc[i].Fields[f].EnumFields = << <<"dns">>, <<"http">>, <<"headless">> >>
          /\ doc[i].Fields[f].Text.Values = << >>
          /\ doc[i].Fields[g].EnumFields = << >>
          /\ doc[i].Fields[g].Text.Values = <<"v1", "v2">>

\* the entries of structures that one top-level call of collectStructsWithOpts
\* on root package pkg added, as their name, prefix and fields
ResolvedFor(pkg) ==
    LET OfPkg(s) == Decls(prog)[s.decl].pkg = pkg
        own == SelectSeq(structures, OfPkg)
    IN  [n \in 1..Len(own) |->
            [name |-> own[n].name, packagePrefix |-> own[n].packagePrefix,
             fields |-> own[n].fields]]

\* C12: when the loop of process resolves the same root over two root
\* packages with the same declarations, the second call of
\* collectStructsWithOpts yields the same resolved set as the first: what the
\* first call left in uniqueStructures suppresses nothing in the second.
C12_DedupScopedPerResolution ==
    (Resolved /\ Len(Pkgs(prog)) = 2) =>
        ResolvedFor(Pkgs(prog)[2]) = ResolvedFor(Pkgs(prog)[1])

\* The struct declaration that the type of field declaration D of declaration
\* d refers to (directly, through pointers, slice elements and map values):
\* an exported struct of that name in the same package, or in the loaded
\* package of the identifier's import path; 0 when there is none.
TargetOf(d, D) ==
    LET t == RefIdent(D.Type)
        pkg == Decls(prog)[d].pkg
        where == IF t.Path = Empty THEN pkg
                 ELSE IF HasImport(pkg, t.Path) THEN ImportOf(pkg, t.Path)
                 ELSE "none"
        cands == {e \in DeclIds(prog) :
                    /\ Decls(prog)[e].pkg = where
                    /\ Decls(prog)[e].name = t.Name
                    /\ Decls(prog)[e].struct
                    /\ IsUpper(Decls(prog)[e].name[1])}
    IN  IF t = Nil THEN 0
        ELSE IF cands = {} THEN 0
        ELSE CHOOSE e \in cands : TRUE

\* the declarations one step away from those of S through an included field
StepFrom(S) ==
    {e \in DeclIds(prog) :
        \E d \in S : \E k \in 1..Len(Decls(prog)[d].fields) :
            /\ ~Classify(Decls(prog)[d].fields[k],
                         NodeOf(Decls(prog)[d].pkg, "file")).skip
            /\ TargetOf(d, Decls(prog)[d].fields[k]) = e}

RECURSIVE ReachableFrom(_, _)
ReachableFrom(S, n) ==
    IF n = 0 THEN S ELSE ReachableFrom(S \cup StepFrom(S), n - 1)

\* the declarations the requested root name selects in the root packages
RootDecls ==
    {d \in DeclIds(prog) :
        \E n \in 1..Len(Pkgs(prog)) :
            /\ Decls(prog)[d].pkg = Pkgs(prog)[n]
            /\ Accepts(Decls(prog)[d], prog.root)}

ReachableDecls == ReachableFrom(RootDecls, Len(Decls(prog)))

\* C13: when resolution has finished, every exported struct declaration
\* reachable from the root through included fields whose type is that struct
\* directly, through a pointer, a slice element or a map value, in the same
\* package or in a loaded imported package, has an entry in the resolved set.
C13_ReachableStructsResolved ==
    Resolved =>
        \A d \in ReachableDecls :
            \E i \in 1..Len(structures) : structures[i].decl = d

\* the position of the first entry of structures built from declaration d,
\* 0 when there is none
FirstEntryOf(d) ==
    IF \E i \in 1..Len(structures) : structures[i].decl = d
    THEN CHOOSE i \in 1..Len(structures) :
            structures[i].decl = d /\ \A j \in 1..(i - 1) : structures[j].decl # d
    ELSE 0

\* field declaration D has a map type whose key names, without import path,
\* the exported struct declaration e of the file of declaration d
MapKeyStruct(d, D, e) ==
    /\ D.Type.k = "Map" /\ D.Type.Key.k = "Ident"
    /\ e # 0
    /\ ObjOf(prog, Decls(prog)[d].pkg, Decls(prog)[d].file, D.Type.Key) = e
    /\ Accepts(Decls(prog)[e], D.Type.Key.Name)

\* C14 as stated: a struct that an included field uses as map key only is
\* neither in the resolved set nor marked in the dedup set, and the field's
\* type signature still shows the key type.
C14_MapKeyNotFollowed ==
    Resolved =>
        \A i \in 1..Len(structures) : \A k \in 1..Len(FieldDeclsOf(structures[i])) :
            \A e \in DeclIds(prog) :
                LET P == structures[i]
                    D == FieldDeclsOf(P)[k]
                IN  (IsIncluded(P, k) /\ MapKeyStruct(P.decl, D, e)
                        /\ e \notin ReachableDecls) =>
                       /\ FirstEntryOf(e) = 0
                       /\ D.Type.Key.Name \notin uniqueStructures
                       /\ \E f \in 1..Len(P.fields) :
                             /\ P.fields[f].Name = D.Names[1]
                             /\ HasPrefix(P.fields[f].Type,
                                          <<"map[">> \o D.Type.Key.Name \o <<"]">>)

\* C14 (amended): collectUnresolvedExternalStructs follows the key type of a
\* map before its value type: a struct used as map key by an included field
\* is marked in the dedup set and has an entry in the resolved set, ahead of
\* the entry of the value's struct when this field is what discovers both;
\* the field's TypeRef comes from the value type alone and its type signature
\* is map[K]V.
C14_MapKeyFollowed ==
    Resolved =>
        \A i \in 1..Len(structures) : \A k \in 1..Len(FieldDeclsOf(structures[i])) :
            \A e \in DeclIds(prog) :
                LET P == structures[i]
                    D == FieldDeclsOf(P)[k]
                    v == TargetOf(P.decl, D)
                    OnlyHere(x) ==
                        \A d \in DeclIds(prog) : \A n \in 1..Len(Decls(prog)[d].fields) :
                            x \in {ObjOf(prog, Decls(prog)[d].pkg, Decls(prog)[d].file,
                                         Leaves(Decls(prog)[d].fields[n].Type)[m]) :
                                     m \in 1..Len(Leaves(Decls(prog)[d].fields[n].Type))}
                                => Decls(prog)[d].fields[n] = D
                IN  (IsIncluded(P, k) /\ MapKeyStruct(P.decl, D, e)) =>
                       /\ FirstEntryOf(e) > 0
                       /\ wrapStructName(P.packagePrefix, D.Type.Key.Name)
                             \in uniqueStructures
                       /\ (v # 0 /\ v # e /\ OnlyHere(e) /\ OnlyHere(v)
                             /\ e \notin RootDecls /\ v \notin RootDecls)
                             => (FirstEntryOf(v) > FirstEntryOf(e))
                       /\ \E f \in 1..Len(P.fields) :
                             /\ P.fields[f].Name = D.Names[1]
                             /\ P.fields[f].TypeRef
                                   = getFieldType(D.Type.Value, P.packagePrefix, FALSE)
                             /\ P.fields[f].Type
                                   = <<"map[">> \o D.Type.Key.Name \o <<"]">>
                                       \o formatFieldType(D.Type.Value, P.packagePrefix, FALSE)

\* a field of type map[E]*B has been resolved: E and then B are in the
\* resolved set and the field is rendered as map[E]B with TypeRef B
C14_Witness ==
    /\ pc = "done"
    /\ \E i, e, b \in 1..Len(structures) : \E f \in 1..Len(structures[i].fields) :
          /\ structures[i].fields[f].Type = <<"map[", "E", "]", "B">>
          /\ structures[i].fields[f].TypeRef = <<"B">>
          /\ structures[e].name = <<"E">> /\ structures[b].name = <<"B">>
          /\ e < b
          /\ <<"E">> \in uniqueStructures

\* the declarations of the first root package that match the root name
RootMatches == Matches(prog, Pkgs(prog)[1], prog.root)

\* C15 as stated: of several struct declarations of a package that match the
\* requested name case-insensitively only the first is resolved; a later one
\* (that no field of the first leads to) has no entry in the resolved set.
C15_OnlyFirstMatchResolved ==
    Resolved =>
        \A n \in 2..Len(RootMatches) :
            RootMatches[n] \notin ReachableFrom({RootMatches[1]}, Len(Decls(prog)))
                => FirstEntryOf(RootMatches[n]) = 0

\* C15 (amended): collectStructsWithOpts parses every exported struct
\* declaration of the package whose name matches the requested name
\* case-insensitively: the first match is the main struct (the first entry of
\* the resolved set), every later match has an entry of its own among the
\* extras, and the fields of each are walked (its entry lists its included
\* fields).
C15_AllMatchesResolved ==
    (Resolved /\ Len(RootMatches) > 0) =>
        /\ structures[1].decl = RootMatches[1]
        /\ \A n \in 1..Len(RootMatches) :
              LET i == FirstEntryOf(RootMatches[n])
              IN  /\ i > 0
                  /\ n > 1 => i > 1
                  /\ Len(structures[i].fields)
                        = IncludedBefore(RootMatches[n], structures[i].original,
                                         Len(Decls(prog)[RootMatches[n]].fields) + 1)

\* the root name matched two declarations whose names differ in case, and
\* both are in the resolved set with their fields
C15_Witness ==
    /\ pc = "done"
    /\ Len(RootMatches) = 2
    /\ Len(structures) = 2
    /\ structures[1].name = <<"A", "b">> /\ Len(structures[1].fields) = 1
    /\ structures[2].name = <<"A", "B">> /\ Len(structures[2].fields) = 2

\* the identifier that RefIdent reaches in p stands directly under a pointer
RECURSIVE UnderStar(_)
UnderStar(p) ==
    CASE p.k = "Map" -> UnderStar(p.Value)
      [] p.k = "Array" -> UnderStar(p.Elt)
      [] p.k = "Star" -> IF p.X.k = "Ident" THEN TRUE ELSE UnderStar(p.X)
      [] OTHER -> FALSE

\* the Field that struct entry P holds for its field declaration D
FieldOf(P, D) ==
    CHOOSE F \in {P.fields[f] : f \in 1..Len(P.fields)} : F.Name = D.Names[1]

ExcludedByTagOrVisibility(D) ==
    \/ ~D.HasTag
    \/ (D.Mapping = Empty /\ SplitFirst(D.Yaml, ",") \in {Empty, <<"-">>})
    \/ (Len(D.Names) > 0 /\ ~IsUpper(D.Names[1][1]))

\* C17: no diagnostic is ever logged for a field that a tag or visibility rule
\* excludes, whatever its documentation: every missing-documentation line in
\* the log is about a field that passes those rules.
C17_ExcludedFieldsAreSilent ==
    prog # Nil =>
        \A n \in 1..Len(logs) :
            logs[n].msg = "missing-doc" =>
                ~ExcludedByTagOrVisibility(Decls(prog)[logs[n].decl].fields[logs[n].field])

\* field declaration D has no mapping tag and a yaml tag whose primary key
\* (the text before the first comma) is empty or "-"
EmptyOrDashKey(D) ==
    /\ D.HasTag /\ D.Mapping = Empty
    /\ SplitFirst(D.Yaml, ",") \in {Empty, <<"-">>}

HasFieldNamed(P, name) == \E f \in 1..Len(P.fields) : P.fields[f].Name = name

\* C18 as stated: a named field without mapping tag whose yaml primary key is
\* empty or "-" is in no field list, whatever follows the comma.
C18_EmptyKeyAlwaysSkipped ==
    Resolved =>
        \A i \in 1..Len(structures) : \A k \in 1..Len(FieldDeclsOf(structures[i])) :
            LET D == FieldDeclsOf(structures[i])[k]
            IN  (EmptyOrDashKey(D) /\ Len(D.Names) > 0)
                    => ~HasFieldNamed(structures[i], D.Names[1])

\* C18 (amended): such a field is skipped when its yaml tag holds no comma;
\* when options follow a comma it passes the tag rule, and a named, exported,
\* documented field is then in the field list of its struct with the primary
\* key ("" or "-") as its exposed name.
C18_EmptyKeySkippedWithoutComma ==
    Resolved =>
        \A i \in 1..Len(structures) : \A k \in 1..Len(FieldDeclsOf(structures[i])) :
            LET P == structures[i]
                D == FieldDeclsOf(P)[k]
            IN  (EmptyOrDashKey(D) /\ Len(D.Names) > 0) =>
                   IF \A n \in 1..Len(D.Yaml) : D.Yaml[n] # ","
                   THEN ~HasFieldNamed(P, D.Names[1])
                   ELSE (IsUpper(D.Names[1][1]) /\ ~IsUndocumented(D.Doc)
                            /\ ~HasNoDocDirective(D.Doc)) =>
                           /\ HasFieldNamed(P, D.Names[1])
                           /\ FieldOf(P, D).Tag = SplitFirst(D.Yaml, ",")

\* a struct of the output has skipped a field tagged yaml:"-" and lists a
\* field tagged yaml:",omitempty" under the empty name
C18_Witness ==
    /\ pc = "done"
    /\ \E i \in 1..Len(structures) :
          /\ FieldDeclsOf(structures[i]) = <<GDash, GOmit>>
          /\ Len(structures[i].fields) = 1
          /\ structures[i].fields[1].Name = <<"T">>
          /\ structures[i].fields[1].Tag = Empty

\* the prefix of the structs of a package: empty in a root package, the base
\* name of its import path otherwise
PrefixOfPkg(pkg) ==
    LET paths == {e[1] : e \in {x \in Imports("r") \cup Imports("s") : x[2] = pkg}}
    IN  IF paths = {} THEN Empty ELSE Base(CHOOSE path \in paths : TRUE)

\* C19: when two struct declarations with the same name in different packages
\* are both reachable from the root, both have an entry in the resolved set,
\* each with the prefix of its own package: neither suppresses the other
\* through the dedup set (programs with one root package).
C19_SameNameAcrossPackages ==
    (Resolved /\ Len(Pkgs(prog)) = 1) =>
        \A d1, d2 \in ReachableDecls :
            (/\ d1 # d2
             /\ Decls(prog)[d1].pkg # Decls(prog)[d2].pkg
             /\ Decls(prog)[d1].name = Decls(prog)[d2].name) =>
                \A d \in {d1, d2} :
                    /\ FirstEntryOf(d) > 0
                    /\ structures[FirstEntryOf(d)].packagePrefix
                          = PrefixOfPkg(Decls(prog)[d].pkg)

\* an exported, named field declaration that carries a mapping tag
IsMappingField(D) ==
    /\ D.HasTag /\ Len(D.Names) > 0
    /\ D.Mapping # Empty
    /\ IsUpper(D.Names[1][1])

\* a missing-documentation line is in the log for field k of declaration d
LoggedMissingDoc(d, k) ==
    \E n \in 1..Len(logs) : logs[n] = MissingDoc(d, k)

RECURSIVE AppearancesFrom(_, _, _, _)
AppearancesFrom(structs, name, i, f) ==
    IF i > Len(structs) THEN << >>
    ELSE IF f > Len(structs[i].fields) THEN AppearancesFrom(structs, name, i + 1, 1)
    ELSE (IF structs[i].fields[f].TypeRef = name /\ name # Empty
          THEN << [Struct |-> i, FieldName |-> structs[i].fields[f].Tag] >>
          ELSE << >>)
         \o AppearancesFrom(structs, name, i, f + 1)

\* C21: while the first loop of process builds doc.Structs no Struct has an
\* AppearsIn entry; once the second loop has run, the AppearsIn of every
\* Struct T is the list of the (parent, field) pairs of all fields whose
\* TypeRef is T's qualified name, of parents before and after T alike, by
\* position of the parent in the resolved list and by field order within a
\* parent, one entry per such field.
C21_AppearsInAfterWholeSet ==
    /\ pc \in {"start", "resolve", "synth"} =>
          \A j \in 1..Len(doc) : doc[j].AppearsIn = << >>
    /\ Synthesized =>
          /\ Len(doc) = Len(structures)
          /\ \A j \in 1..Len(doc) :
                doc[j].AppearsIn = AppearancesFrom(structures, GetName(doc[j]), 1, 1)

\* the output holds a struct that appears in a field of a parent placed
\* after it in the resolved list and in fields of two different parents,
\* and a struct whose list has two entries of one parent
C21_Witness ==
    /\ pc = "done"
    /\ \E j \in 1..Len(doc) : \E m, n \in 1..Len(doc[j].AppearsIn) :
          /\ doc[j].AppearsIn[m].Struct > j
          /\ doc[j].AppearsIn[n].Struct # doc[j].AppearsIn[m].Struct
    /\ \E j \in 1..Len(doc) : \E m, n \in 1..Len(doc[j].AppearsIn) :
          /\ m < n
          /\ doc[j].AppearsIn[m].Struct = doc[j].AppearsIn[n].Struct
          /\ doc[j].AppearsIn[m].FieldName # doc[j].AppearsIn[n].FieldName

\* C22: in the output, every included field whose type refers (directly,
\* through a pointer, a slice element or a map value) to a struct declaration
\* that has an entry in the resolved set has the qualified name of that entry
\* as its TypeRef, whatever the shape of the type and whatever the package
\* prefix of the owning struct, and is listed in the AppearsIn of that entry.
C22_TypeRefIsQualifiedName ==
    pc = "done" =>
        \A i \in 1..Len(structures) : \A k \in 1..Len(FieldDeclsOf(structures[i])) :
            LET P == structures[i]
                D == FieldDeclsOf(P)[k]
                e == TargetOf(P.decl, D)
                j == FirstEntryOf(e)
            IN  (IsIncluded(P, k) /\ e # 0 /\ j > 0) =>
                   /\ FieldOf(P, D).TypeRef = GetName(doc[j])
                   /\ \E n \in 1..Len(doc[j].AppearsIn) :
                         doc[j].AppearsIn[n] = Appearance(i, FieldOf(P, D))

\* C23: collectPartEnumInformation completes without a runtime failure on
\* every node, and its result has exactly one value per constant not named
\* "limit" of the const groups marked for the type, whether or not the
\* constants carry a leading comment of their own.
C23_EnumDiscoveryNeverFails ==
    enumOut # Nil =>
        /\ ~enumOut.panic
        /\ Len(enumOut.values) = Len(EnumConstants(EnumNode(enumIn), <<"K">>))

\* The structs discovered so far, in the order their parsing began: those
\* process has received, then, from the outermost running call to the
\* innermost, the struct a call of parseStructuresFromDSTSpec is parsing
\* followed by what its fields have found, or what a call of
\* collectStructsWithOpts has collected.
DeclsOf(structs) == [n \in 1..Len(structs) |-> structs[n].decl]
FrameOrder(fr) ==
    IF fr.kind = "fields" THEN <<fr.decl>> \o DeclsOf(fr.found)
    ELSE DeclsOf(Collected(fr.main, fr.extras))
RECURSIVE StackOrder(_)
StackOrder(n) ==
    IF n > Len(stack) THEN << >> ELSE FrameOrder(stack[n]) \o StackOrder(n + 1)
DiscoveryOrder == DeclsOf(structures) \o StackOrder(1)

\* C24: the resolved list is kept in depth-first discovery order: no step
\* of the resolution reorders the structs discovered so far, and a newly
\* discovered struct (a new call of parseStructuresFromDSTSpec that passed
\* its filter) is placed after all of them, so that a type discovered
\* through a field of P stands after P and before any type discovered
\* through a later field of P.  The first entry is a struct the root name
\* selects in a root package, parsed without package prefix, and the
\* document handed to render lists the entries in this same order.
C24_DepthFirstDiscoveryOrder ==
    /\ [][\/ DiscoveryOrder' = DiscoveryOrder
          \/ /\ Len(stack') = Len(stack) + 1
             /\ stack'[Len(stack')].kind = "fields"
             /\ stack'[Len(stack')].fields = << >>
             /\ DiscoveryOrder' = Append(DiscoveryOrder, stack'[Len(stack')].decl)]_vars
    /\ [](Resolved =>
            /\ DiscoveryOrder = DeclsOf(structures)
            /\ structures # << >> =>
                  /\ structures[1].decl \in RootDecls
                  /\ structures[1].packagePrefix = Empty)
    /\ [](pc \in {"render", "done", "failed"} =>
            /\ Len(doc) = Len(structures)
            /\ \A j \in 1..Len(doc) :
                  /\ doc[j].name = structures[j].name
                  /\ doc[j].packagePrefix = structures[j].packagePrefix
                  /\ doc[j].Fields = structures[j].fields)

\* the root A { C q.C; B B } with B { U A } was documented: C, found through
\* the first field of A, stands before B, found through the second, and the
\* struct found through the field of B stands after B
C24_Witness ==
    /\ pc = "done"
    /\ prog.root = <<"A">>
    /\ FieldDeclsOf(structures[1]) = <<FC, FB>>
    /\ Len(doc) = 4
    /\ DeclsOf(structures) = <<1, 3, 2, 1>>

\* C25: in the document handed to render, two Structs with different
\* qualified names have different escaped names, so that the variables
\* <GetEscapedName>Doc of the generated file are distinct.
C25_EscapedNameInjective ==
    pc \in {"render", "done"} =>
        \A i, j \in 1..Len(doc) :
            GetName(doc[i]) # GetName(doc[j]) =>
                GetEscapedName(doc[i]) # GetEscapedName(doc[j])

====
